---- MODULE Spec2Model ----
(***************************************************************************)
(* streamlit_sync/synced_state.py: the per-room synced state (_SyncedState) *)
(* shared by the sessions of one Streamlit process, the room registry       *)
(* (get_synced_state, get_existing_room_names) and the host runtime the     *)
(* code talks to (session state of each session, rerun requests, session    *)
(* handles, wall clock, disk containers).                                   *)
(*                                                                          *)
(* Each session runs its script in a thread of its own.  A method that      *)
(* takes self._lock is one step for every other method that takes it, but   *)
(* attach_to_disk takes no lock, so its attribute reads and writes are      *)
(* separate steps, and sync is split where it reads the room (lines         *)
(* 108-145) and where it writes it (lines 150-154).                         *)
(***************************************************************************)
EXTENDS Integers, Sequences, FiniteSets, TLC

(***************************************************************************)
(* Bounds of the model                                                      *)
(***************************************************************************)
\* largest value the wall clock reaches
MaxClock == 2
\* number of values the users and scripts put into session states
MaxInputs == 2

RoomNames == {"r1", "r2"}
Sessions == {"s1", "s2", "s3"}
Dirs == {"d1", "d2"}
Values == {"None", "a", "b"}
Sources == {"new_session_state", "new_widget_state", "session_state"}

\* keys as the three sources hold them: user keys, the widget ids of x and of
\* priv, and one key of each class that is never synced
UserKeys == {"x", "y"}
RawKeys == {"x", "y", "w_x", "form", "trig", "priv", "w_priv"}
SourceKeys(src) ==
    IF src = "new_widget_state" THEN {"w_x", "form", "trig", "w_priv"}
    ELSE {"x", "y", "form", "trig", "priv"}

\* cache_dir / self.room_name
RoomCacheDir(d, r) == <<d, r>>
Paths == {RoomCacheDir(d, r) : d \in Dirs, r \in RoomNames}

\* datetime.fromtimestamp(0)
Epoch == 0

VARIABLES
    rooms,                \* names for which get_synced_state built a _SyncedState
    existing_room_names,  \* the set get_existing_room_names() returns
    last_updated,         \* [room] self.last_updated
    registered,           \* [room] self._registered_sessions
    mem,                  \* [room] the dict self.state is constructed with
    state_ref,            \* [room] what self.state refers to: <<>> the dict, <<p>> the Index at p
    use_cache,            \* [room] self.use_cache
    room_cache_dir,       \* [room] self.room_cache_dir: <<>> attribute not set, <<p>> path p
    cache,                \* [room] self._cache: <<>> not set, <<p>> Cache(p)
    nb_open,              \* [room] number of Cache(...) containers opened
    lock,                 \* [room] self._lock: <<>> free, <<s>> held by session s
    disk,                 \* [path] content of the container at the path
    alive,                \* sessions the runtime has a live handle for
    room_of,              \* [session] <<>> or <<r>>: the room the session's script uses
    last_synced,          \* [session] st.session_state[LAST_SYNCED_KEY]: <<>> unset, <<t>>
    local,                \* [session][source] key/value entries of the session state
    runq,                 \* [session] a (re)run of the script is pending
    notified,             \* [session] "requested" by a peer's broadcast, "pulled" after it, "no"
    pc,                   \* [session] position of the script thread
    arg,                  \* [session] room_cache_dir of the session's last attach_to_disk call
    updated,              \* [session] updated_values of the sync in progress
    result,               \* [session] outcome of the session's last call
    now,                  \* datetime.now()
    inputs,               \* values put into session states so far
    last_commit,          \* history: the last commit of a sync and the one before it
    repeated              \* history: the calls of register_session for a registered id
                          \* and of unregister_session for an absent id that happened

roomvars == <<last_updated, registered, mem, state_ref, use_cache, room_cache_dir,
              cache, nb_open, lock, disk>>
sessvars == <<alive, room_of, last_synced, local, runq, notified, pc, arg, updated, result>>
vars == <<rooms, existing_room_names, roomvars, sessvars, now, inputs, last_commit,
          repeated>>

(***************************************************************************)
(* Mappings (dict, diskcache.Index) as functions with a finite domain       *)
(***************************************************************************)
EmptyMap == <<>>

\* dict.get(key): None when the key is absent
Get(m, k) == IF k \in DOMAIN m THEN m[k] ELSE "None"

\* dict.update(u)
Update(m, u) == [k \in DOMAIN m \cup DOMAIN u |-> IF k \in DOMAIN u THEN u[k] ELSE m[k]]

\* m[k] = v
Put(m, k, v) == [j \in DOMAIN m \cup {k} |-> IF j = k THEN v ELSE m[j]]

\* self.state of room r
State(r) == IF state_ref[r] = <<>> THEN mem[r] ELSE disk[state_ref[r][1]]

(***************************************************************************)
(* Boundaries the code consumes (st_hack, utils): classification and        *)
(* translation of keys, overwrite of a session's values                     *)
(***************************************************************************)
\* st_hack.is_form_submitter_value(key)
is_form_submitter_value(k) == k = "form"

\* st_hack.is_trigger_value(key, internal_session_state)
is_trigger_value(k) == k = "trig"

\* st_hack.widget_id_to_user_key(key)
widget_id_to_user_key(k) == IF k = "w_x" THEN "x" ELSE IF k = "w_priv" THEN "priv" ELSE k

\* utils.is_synced(key): eligibility is a property of the user key, and the
\* answer for a widget id is the answer for the user key it stands for
is_synced(k) == widget_id_to_user_key(k) # "priv"

\* st_hack.set_internal_values(self.state): every pending or displayed value of
\* a key of the room is overwritten with the room's value
set_internal_values(loc, st) ==
    [src \in Sources |->
        IF src = "session_state"
        THEN Update(loc[src], st)
        ELSE [k \in DOMAIN loc[src] |->
                 IF widget_id_to_user_key(k) \in DOMAIN st
                 THEN st[widget_id_to_user_key(k)]
                 ELSE loc[src][k]]]

(***************************************************************************)
(* sync, lines 122-145: the values of the session that differ from the room *)
(***************************************************************************)
\* the mutation of Skipped that forgets the trigger test of lines 132-136
SkippedNoTrigger(k) == is_form_submitter_value(k) \/ ~is_synced(k)

\* lines 128-140: the keys the loop passes over
Skipped(k) == is_form_submitter_value(k) \/ is_trigger_value(k) \/ ~is_synced(k)

\* lines 142-145 over the items of one source: updated_values[key] = value
\* for every item kept whose value differs from self.state.get(key)
Changed(m, st) ==
    LET kept == {k \in DOMAIN m :
                    ~Skipped(k) /\ m[k] # Get(st, widget_id_to_user_key(k))}
    IN  [u \in {widget_id_to_user_key(k) : k \in kept} |->
            m[CHOOSE k \in kept : widget_id_to_user_key(k) = u]]

\* lines 122-145: the three sources chained in order, a later item of the
\* same key overwriting an earlier one in updated_values
UpdatedValues(loc, st) ==
    Update(Update(Changed(loc["new_session_state"], st),
                  Changed(loc["new_widget_state"], st)),
           Changed(loc["session_state"], st))

(***************************************************************************)
(* Initial state: no room built, every session connected and about to run   *)
(* its script; the containers hold values written by an earlier process     *)
(***************************************************************************)
NoCommit == [by |-> "none", room |-> "none", upd |-> EmptyMap, before |-> Epoch,
             pruned |-> {}, waiting |-> EmptyMap, prev_by |-> "none", prev_keys |-> {},
             replaced |-> FALSE]

Init ==
    /\ rooms = {}
    /\ existing_room_names = {}
    /\ last_updated = [r \in RoomNames |-> Epoch]
    /\ registered = [r \in RoomNames |-> {}]
    /\ mem = [r \in RoomNames |-> EmptyMap]
    /\ state_ref = [r \in RoomNames |-> <<>>]
    /\ use_cache = [r \in RoomNames |-> FALSE]
    /\ room_cache_dir = [r \in RoomNames |-> <<>>]
    /\ cache = [r \in RoomNames |-> <<>>]
    /\ nb_open = [r \in RoomNames |-> 0]
    /\ lock = [r \in RoomNames |-> <<>>]
    /\ disk = [p \in Paths |-> IF p[1] = "d1" THEN ("x" :> "b") ELSE ("x" :> "a")]
    /\ alive = Sessions
    /\ room_of = [s \in Sessions |-> <<>>]
    /\ last_synced = [s \in Sessions |-> <<>>]
    /\ local = [s \in Sessions |-> [src \in Sources |-> EmptyMap]]
    /\ runq = [s \in Sessions |-> TRUE]
    /\ notified = [s \in Sessions |-> "no"]
    /\ pc = [s \in Sessions |-> "idle"]
    /\ arg = [s \in Sessions |-> <<>>]
    /\ updated = [s \in Sessions |-> EmptyMap]
    /\ result = [s \in Sessions |-> "none"]
    /\ now = 1
    /\ inputs = 0
    /\ last_commit = NoCommit
    /\ repeated = {}

\* the script thread of session s is between two calls on room r
Idle(s, r) == s \in alive /\ pc[s] = "idle" /\ room_of[s] = <<r>>

(***************************************************************************)
(* Registry                                                                 *)
(***************************************************************************)
\* get_synced_state(room_name) called by the script of session s: the cached
\* _SyncedState, built by __init__ on the first call
get_synced_state(s, r) ==
    /\ s \in alive /\ pc[s] = "idle" /\ room_of[s] = <<>>
    /\ rooms' = rooms \cup {r}
    /\ room_of' = [room_of EXCEPT ![s] = <<r>>]
    /\ UNCHANGED <<existing_room_names, roomvars, alive, last_synced, local, runq,
                   notified, pc, arg, updated, result, now, inputs, last_commit, repeated>>

\* register_session, lines 85-89
register_session(s, r) ==
    /\ Idle(s, r) /\ lock[r] = <<>>
    /\ registered' = [registered EXCEPT ![r] = @ \cup {s}]
    /\ existing_room_names' = existing_room_names \cup {r}
    /\ repeated' = IF s \in registered[r] THEN repeated \cup {"register"} ELSE repeated
    /\ UNCHANGED <<rooms, last_updated, mem, state_ref, use_cache, room_cache_dir,
                   cache, nb_open, lock, disk, sessvars, now, inputs, last_commit>>

\* the mutation of unregister_session that empties the set of sessions
unregister_session_all(s, r) ==
    /\ Idle(s, r) /\ lock[r] = <<>>
    /\ registered' = [registered EXCEPT ![r] = {}]
    /\ repeated' = IF s \notin registered[r] THEN repeated \cup {"unregister"}
                    ELSE repeated
    /\ UNCHANGED <<rooms, existing_room_names, last_updated, mem, state_ref, use_cache,
                   room_cache_dir, cache, nb_open, lock, disk, sessvars, now, inputs,
                   last_commit>>

\* unregister_session, lines 91-94
unregister_session(s, r) ==
    /\ Idle(s, r) /\ lock[r] = <<>>
    /\ registered' = [registered EXCEPT ![r] = @ \ {s}]
    /\ repeated' = IF s \notin registered[r] THEN repeated \cup {"unregister"}
                    ELSE repeated
    /\ UNCHANGED <<rooms, existing_room_names, last_updated, mem, state_ref, use_cache,
                   room_cache_dir, cache, nb_open, lock, disk, sessvars, now, inputs,
                   last_commit>>

(***************************************************************************)
(* sync, lines 96-154                                                       *)
(***************************************************************************)
\* the mutation of Pull that leaves the session's timestamp as it is
PullNoStamp(s, r) ==
    /\ local' = [local EXCEPT ![s] = set_internal_values(local[s], State(r))]
    /\ notified' = [notified EXCEPT ![s] = IF @ = "requested" THEN "pulled" ELSE "no"]
    /\ result' = [result EXCEPT ![s] = "pulled"]
    /\ UNCHANGED <<lock, runq, pc, updated, last_synced>>

\* lines 114-117 (branch A): the session takes the room's values and
\* timestamp, and st.experimental_rerun() abandons the run and schedules
\* the next one; the with statement releases the lock
Pull(s, r) ==
    /\ local' = [local EXCEPT ![s] = set_internal_values(local[s], State(r))]
    /\ last_synced' = [last_synced EXCEPT ![s] = <<last_updated[r]>>]
    /\ notified' = [notified EXCEPT ![s] = IF @ = "requested" THEN "pulled" ELSE "no"]
    /\ result' = [result EXCEPT ![s] = "pulled"]
    /\ UNCHANGED <<lock, runq, pc, updated>>

\* the mutation of Compare that returns without releasing the lock when
\* updated_values is empty
CompareHold(s, r) ==
    LET upd == UpdatedValues(local[s], State(r))
    IN  /\ notified' = [notified EXCEPT ![s] = "no"]
        /\ lock' = [lock EXCEPT ![r] = <<s>>]
        /\ IF upd = EmptyMap
           THEN /\ runq' = [runq EXCEPT ![s] = FALSE]
                /\ result' = [result EXCEPT ![s] = "unchanged"]
                /\ UNCHANGED <<pc, updated>>
           ELSE /\ pc' = [pc EXCEPT ![s] = "commit"]
                /\ updated' = [updated EXCEPT ![s] = upd]
                /\ UNCHANGED <<runq, result>>
        /\ UNCHANGED <<local, last_synced>>

\* lines 119-150 (branch B): updated_values is computed; when it is empty sync
\* returns, else the thread goes on to lines 151-154 with the lock held
Compare(s, r) ==
    LET upd == UpdatedValues(local[s], State(r))
    IN  /\ notified' = [notified EXCEPT ![s] = "no"]
        /\ IF upd = EmptyMap
           THEN /\ runq' = [runq EXCEPT ![s] = FALSE]
                /\ result' = [result EXCEPT ![s] = "unchanged"]
                /\ UNCHANGED <<lock, pc, updated>>
           ELSE /\ lock' = [lock EXCEPT ![r] = <<s>>]
                /\ pc' = [pc EXCEPT ![s] = "commit"]
                /\ updated' = [updated EXCEPT ![s] = upd]
                /\ UNCHANGED <<runq, result>>
        /\ UNCHANGED <<local, last_synced>>

\* the mutation of SyncRead that takes an unset timestamp for the epoch
SyncReadUnsetIsEpoch(s, r) ==
    /\ Idle(s, r) /\ runq[s] /\ lock[r] = <<>>
    /\ IF /\ last_synced[s] # <<last_updated[r]>>
          /\ ~(last_synced[s] = <<>> /\ last_updated[r] = Epoch)
       THEN Pull(s, r) ELSE Compare(s, r)
    /\ UNCHANGED <<rooms, existing_room_names, last_updated, registered, mem, state_ref,
                   use_cache, room_cache_dir, cache, nb_open, disk, alive, room_of, arg,
                   now, inputs, last_commit, repeated>>

\* lines 108-150: the lock is taken and the session's timestamp is compared
\* with the room's
SyncRead(s, r) ==
    /\ Idle(s, r) /\ runq[s] /\ lock[r] = <<>>
    /\ IF last_synced[s] # <<last_updated[r]>> THEN Pull(s, r) ELSE Compare(s, r)
    /\ UNCHANGED <<rooms, existing_room_names, last_updated, registered, mem, state_ref,
                   use_cache, room_cache_dir, cache, nb_open, disk, alive, room_of, arg,
                   now, inputs, last_commit, repeated>>

\* the mutation of InactiveSessions that finds every session active
InactiveSessionsNone(s, r) == {}

\* _trigger_sessions, lines 162-178: the registered sessions other than the
\* current one without a live handle
InactiveSessions(s, r) == {t \in registered[r] : t # s /\ t \notin alive}

\* the mutation of Triggered that forgets the test of line 165
TriggeredSelf(s, r) == {t \in registered[r] : t \in alive}

\* _trigger_sessions, line 175: the sessions request_rerun is called on
Triggered(s, r) == {t \in registered[r] : t # s /\ t \in alive}

\* history: the other sessions of room r that are in sync with it while s
\* commits and hold values of their own for keys s does not write
Waiting(s, r) ==
    LET own(t) == [k \in DOMAIN UpdatedValues(local[t], State(r)) \ DOMAIN updated[s]
                      |-> UpdatedValues(local[t], State(r))[k]]
        racing == {t \in Sessions \ {s} :
                      /\ Idle(t, r) /\ last_synced[t] = <<last_updated[r]>>
                      /\ own(t) # EmptyMap}
    IN  [t \in racing |-> own(t)]

\* the mutation of Merged that replaces the map by the update
MergedReplace(r, upd) == upd

\* line 151: self.state.update(updated_values)
Merged(r, upd) == Update(State(r), upd)

\* the mutation of SyncWrite that forgets line 154
SyncWriteNoStamp(s, r) ==
    /\ s \in alive /\ pc[s] = "commit" /\ room_of[s] = <<r>>
    /\ IF state_ref[r] = <<>>
       THEN /\ mem' = [mem EXCEPT ![r] = Merged(r, updated[s])]
            /\ UNCHANGED disk
       ELSE /\ disk' = [disk EXCEPT ![state_ref[r][1]] = Merged(r, updated[s])]
            /\ UNCHANGED mem
    /\ last_updated' = [last_updated EXCEPT ![r] = now]
    /\ registered' = [registered EXCEPT ![r] = @ \ InactiveSessions(s, r)]
    /\ runq' = [t \in Sessions |->
                   IF t = s THEN FALSE
                   ELSE IF t \in Triggered(s, r) THEN TRUE ELSE runq[t]]
    /\ notified' = [t \in Sessions |->
                       IF t \in Triggered(s, r) THEN "requested" ELSE notified[t]]
    /\ UNCHANGED last_synced
    /\ lock' = [lock EXCEPT ![r] = <<>>]
    /\ pc' = [pc EXCEPT ![s] = "idle"]
    /\ updated' = [updated EXCEPT ![s] = EmptyMap]
    /\ result' = [result EXCEPT ![s] = "committed"]
    /\ last_commit' = [by |-> s, room |-> r, upd |-> updated[s],
                       before |-> last_updated[r],
                       pruned |-> InactiveSessions(s, r),
                       waiting |-> Waiting(s, r),
                       prev_by |-> IF last_commit.room = r /\ ~last_commit.replaced
                                   THEN last_commit.by ELSE "none",
                       prev_keys |-> IF last_commit.room = r /\ ~last_commit.replaced
                                     THEN DOMAIN last_commit.upd ELSE {},
                       replaced |-> FALSE]
    /\ UNCHANGED <<rooms, existing_room_names, state_ref, use_cache, room_cache_dir,
                   cache, nb_open, alive, room_of, local, arg, now, inputs, repeated>>

\* lines 151-154 and the release of the lock
SyncWrite(s, r) ==
    /\ s \in alive /\ pc[s] = "commit" /\ room_of[s] = <<r>>
    /\ IF state_ref[r] = <<>>
       THEN /\ mem' = [mem EXCEPT ![r] = Merged(r, updated[s])]
            /\ UNCHANGED disk
       ELSE /\ disk' = [disk EXCEPT ![state_ref[r][1]] = Merged(r, updated[s])]
            /\ UNCHANGED mem
    /\ last_updated' = [last_updated EXCEPT ![r] = now]
    /\ registered' = [registered EXCEPT ![r] = @ \ InactiveSessions(s, r)]
    /\ runq' = [t \in Sessions |->
                   IF t = s THEN FALSE
                   ELSE IF t \in Triggered(s, r) THEN TRUE ELSE runq[t]]
    /\ notified' = [t \in Sessions |->
                       IF t \in Triggered(s, r) THEN "requested" ELSE notified[t]]
    /\ last_synced' = [last_synced EXCEPT ![s] = <<now>>]
    /\ lock' = [lock EXCEPT ![r] = <<>>]
    /\ pc' = [pc EXCEPT ![s] = "idle"]
    /\ updated' = [updated EXCEPT ![s] = EmptyMap]
    /\ result' = [result EXCEPT ![s] = "committed"]
    /\ last_commit' = [by |-> s, room |-> r, upd |-> updated[s],
                       before |-> last_updated[r],
                       pruned |-> InactiveSessions(s, r),
                       waiting |-> Waiting(s, r),
                       prev_by |-> IF last_commit.room = r /\ ~last_commit.replaced
                                   THEN last_commit.by ELSE "none",
                       prev_keys |-> IF last_commit.room = r /\ ~last_commit.replaced
                                     THEN DOMAIN last_commit.upd ELSE {},
                       replaced |-> FALSE]
    /\ UNCHANGED <<rooms, existing_room_names, state_ref, use_cache, room_cache_dir,
                   cache, nb_open, alive, room_of, local, arg, now, inputs, repeated>>

(***************************************************************************)
(* attach_to_disk, lines 59-74: no lock is taken, every line is a step      *)
(***************************************************************************)
\* the mutation of attach_to_disk that attaches whatever self.use_cache is
attach_to_disk_again(s, r, d) ==
    /\ Idle(s, r)
    /\ arg' = [arg EXCEPT ![s] = <<RoomCacheDir(d, r)>>]
    /\ pc' = [pc EXCEPT ![s] = "line71"]
    /\ UNCHANGED <<rooms, existing_room_names, roomvars, alive, room_of, last_synced,
                   local, runq, notified, updated, result, now, inputs, last_commit, repeated>>

\* lines 61-62: the call, with room_cache_dir = cache_dir / self.room_name,
\* reads self.use_cache
attach_to_disk(s, r, d) ==
    /\ Idle(s, r)
    /\ arg' = [arg EXCEPT ![s] = <<RoomCacheDir(d, r)>>]
    /\ pc' = [pc EXCEPT ![s] = IF use_cache[r] THEN "line63" ELSE "line71"]
    /\ UNCHANGED <<rooms, existing_room_names, roomvars, alive, room_of, last_synced,
                   local, runq, notified, updated, result, now, inputs, last_commit, repeated>>

\* lines 63-69: self.room_cache_dir is read (an AttributeError while no call
\* has reached line 72) and compared with the path asked for
AttachCompare(s, r) ==
    /\ s \in alive /\ pc[s] = "line63" /\ room_of[s] = <<r>>
    /\ result' = [result EXCEPT ![s] =
                     IF room_cache_dir[r] = <<>> THEN "attribute_error"
                     ELSE IF room_cache_dir[r] # arg[s] THEN "conflict"
                     ELSE "attached_already"]
    /\ pc' = [pc EXCEPT ![s] = "idle"]
    /\ UNCHANGED <<rooms, existing_room_names, roomvars, alive, room_of, last_synced,
                   local, runq, notified, arg, updated, now, inputs, last_commit,
                   repeated>>

\* line 71: self.use_cache = True
AttachMark(s, r) ==
    /\ s \in alive /\ pc[s] = "line71" /\ room_of[s] = <<r>>
    /\ use_cache' = [use_cache EXCEPT ![r] = TRUE]
    /\ pc' = [pc EXCEPT ![s] = "line72"]
    /\ UNCHANGED <<rooms, existing_room_names, last_updated, registered, mem, state_ref,
                   room_cache_dir, cache, nb_open, lock, disk, alive, room_of,
                   last_synced, local, runq, notified, arg, updated, result, now,
                   inputs, last_commit, repeated>>

\* line 72: self.room_cache_dir = room_cache_dir
AttachPath(s, r) ==
    /\ s \in alive /\ pc[s] = "line72" /\ room_of[s] = <<r>>
    /\ room_cache_dir' = [room_cache_dir EXCEPT ![r] = arg[s]]
    /\ pc' = [pc EXCEPT ![s] = "line73"]
    /\ UNCHANGED <<rooms, existing_room_names, last_updated, registered, mem, state_ref,
                   use_cache, cache, nb_open, lock, disk, alive, room_of, last_synced,
                   local, runq, notified, arg, updated, result, now, inputs, last_commit, repeated>>

\* line 73: self._cache = Cache(self.room_cache_dir)
AttachOpen(s, r) ==
    /\ s \in alive /\ pc[s] = "line73" /\ room_of[s] = <<r>>
    /\ cache' = [cache EXCEPT ![r] = room_cache_dir[r]]
    /\ nb_open' = [nb_open EXCEPT ![r] = @ + 1]
    /\ pc' = [pc EXCEPT ![s] = "line74"]
    /\ UNCHANGED <<rooms, existing_room_names, last_updated, registered, mem, state_ref,
                   use_cache, room_cache_dir, lock, disk, alive, room_of, last_synced,
                   local, runq, notified, arg, updated, result, now, inputs, last_commit, repeated>>

\* line 74: self.state = Index.fromcache(self._cache)
AttachInstall(s, r) ==
    /\ s \in alive /\ pc[s] = "line74" /\ room_of[s] = <<r>>
    /\ state_ref' = [state_ref EXCEPT ![r] = cache[r]]
    /\ result' = [result EXCEPT ![s] = "attached"]
    /\ pc' = [pc EXCEPT ![s] = "idle"]
    /\ last_commit' = IF last_commit.room = r
                      THEN [last_commit EXCEPT !.replaced = TRUE]
                      ELSE last_commit
    /\ UNCHANGED <<rooms, existing_room_names, last_updated, registered, mem, use_cache,
                   room_cache_dir, cache, nb_open, lock, disk, alive, room_of,
                   last_synced, local, runq, notified, arg, updated, now, inputs,
                   repeated>>

(***************************************************************************)
(* The host runtime                                                         *)
(***************************************************************************)
\* a value reaches one source of the session state of s (the script assigns
\* st.session_state[k], the user changes a widget) and a run is scheduled
Input(s, src, k, v) ==
    /\ s \in alive /\ pc[s] = "idle" /\ room_of[s] # <<>>
    /\ inputs < MaxInputs
    /\ local' = [local EXCEPT ![s][src] = Put(@, k, v)]
    /\ runq' = [runq EXCEPT ![s] = TRUE]
    /\ inputs' = inputs + 1
    /\ UNCHANGED <<rooms, existing_room_names, roomvars, alive, room_of, last_synced,
                   notified, pc, arg, updated, result, now, last_commit, repeated>>

\* the wall clock advances
Tick ==
    /\ now < MaxClock
    /\ now' = now + 1
    /\ UNCHANGED <<rooms, existing_room_names, roomvars, sessvars, inputs, last_commit, repeated>>

\* the session ends (closed tab): the runtime drops its handle, the room is
\* not told
Disconnect(s) ==
    /\ s \in alive /\ pc[s] = "idle"
    /\ alive' = alive \ {s}
    /\ UNCHANGED <<rooms, existing_room_names, roomvars, room_of, last_synced, local,
                   runq, notified, pc, arg, updated, result, now, inputs, last_commit, repeated>>

(***************************************************************************)
(* Specifications: Init and the operations of the room, each under the      *)
(* sessions, rooms, directories and entered values of one scenario          *)
(***************************************************************************)
\* the values the users of the two-session scenarios enter
MainInputs == {<<"session_state", "x", "a">>, <<"session_state", "y", "a">>}

\* every value that can reach a source of a session state
AllInputs == {<<src, k, v>> : src \in Sources, k \in RawKeys, v \in Values}
CollectInputs == {i \in AllInputs : i[2] \in SourceKeys(i[1]) \ {"y"}}

\* a session's use of a room: the room is looked up, the session registers,
\* values are entered and sync runs
Protocol(S, R, I) ==
    \/ \E s \in S, r \in R : get_synced_state(s, r)
    \/ \E s \in S, r \in R : register_session(s, r)
    \/ \E s \in S, r \in R : SyncRead(s, r)
    \/ \E s \in S, r \in R : SyncWrite(s, r)
    \/ \E s \in S, i \in I : Input(s, i[1], i[2], i[3])

\* the steps of attach_to_disk after the call
AttachSteps(S, R) ==
    \/ \E s \in S, r \in R : AttachCompare(s, r)
    \/ \E s \in S, r \in R : AttachMark(s, r)
    \/ \E s \in S, r \in R : AttachPath(s, r)
    \/ \E s \in S, r \in R : AttachOpen(s, r)
    \/ \E s \in S, r \in R : AttachInstall(s, r)

\* no attach_to_disk is in progress on room r
NoAttach(r) == \A t \in Sessions : room_of[t] = <<r>> => pc[t] \in {"idle", "commit"}

\* Spec: two sessions in room r1; the script of s1 also attaches the room to
\* directory d1
Next ==
    \/ Protocol({"s1", "s2"}, {"r1"}, MainInputs)
    \/ Tick
    \/ attach_to_disk("s1", "r1", "d1")
    \/ AttachSteps({"s1"}, {"r1"})

Spec == Init /\ [][Next]_vars

\* FairSpec: two sessions in room r1.  A script run that is pending runs
\* (the runtime runs every requested rerun; the lock, released at the end of
\* every sync, is taken infinitely often by a thread that keeps waiting for
\* it), a sync that holds the lock finishes, and the clock advances
NextFair ==
    \/ Protocol({"s1", "s2"}, {"r1"}, MainInputs)
    \/ Tick

FairSpec ==
    /\ Init /\ [][NextFair]_vars
    /\ \A s \in {"s1", "s2"} : SF_vars(SyncRead(s, "r1")) /\ WF_vars(SyncWrite(s, "r1"))
    /\ WF_vars(Tick)

\* AttachSpec: two sessions call attach_to_disk and sync on room r1 at any time
NextAttach ==
    \/ \E s \in {"s1", "s2"} : get_synced_state(s, "r1")
    \/ \E s \in {"s1", "s2"} : SyncRead(s, "r1")
    \/ \E s \in {"s1", "s2"} : SyncWrite(s, "r1")
    \/ \E s \in {"s1", "s2"}, i \in MainInputs : Input(s, i[1], i[2], i[3])
    \/ \E s \in {"s1", "s2"}, d \in Dirs : attach_to_disk(s, "r1", d)
    \/ AttachSteps({"s1", "s2"}, {"r1"})

AttachSpec == Init /\ [][NextAttach]_vars

\* SeqAttachSpec: as AttachSpec, but a call of attach_to_disk starts only when
\* no other call of it is in progress (sequential calls)
NextSeqAttach ==
    \/ \E s \in {"s1", "s2"} : get_synced_state(s, "r1")
    \/ \E s \in {"s1", "s2"} : SyncRead(s, "r1")
    \/ \E s \in {"s1", "s2"} : SyncWrite(s, "r1")
    \/ \E s \in {"s1", "s2"}, i \in MainInputs : Input(s, i[1], i[2], i[3])
    \/ \E s \in {"s1", "s2"}, d \in Dirs : NoAttach("r1") /\ attach_to_disk(s, "r1", d)
    \/ AttachSteps({"s1", "s2"}, {"r1"})

SeqAttachSpec == Init /\ [][NextSeqAttach]_vars

\* BroadcastSpec: three sessions in room r1 that register and unregister, any
\* of which may end
NextBroadcast ==
    \/ Protocol(Sessions, {"r1"}, {<<"session_state", "x", "a">>})
    \/ \E s \in Sessions : unregister_session(s, "r1")
    \/ \E s \in Sessions : Disconnect(s)

BroadcastSpec == Init /\ [][NextBroadcast]_vars

\* RegistrySpec: three sessions and two rooms
NextRegistry ==
    \/ \E s \in Sessions, r \in RoomNames : get_synced_state(s, r)
    \/ \E s \in Sessions, r \in RoomNames : register_session(s, r)
    \/ \E s \in Sessions, r \in RoomNames : unregister_session(s, r)
    \/ \E s \in Sessions : Disconnect(s)

RegistrySpec == Init /\ [][NextRegistry]_vars

\* RaceSpec: two sessions in room r1 that give key x different values
NextRace ==
    \/ Protocol({"s1", "s2"}, {"r1"}, {<<"session_state", "x", "a">>,
                                       <<"session_state", "x", "b">>})
    \/ Tick

RaceSpec == Init /\ [][NextRace]_vars

\* QuiesceSpec: two sessions in room r1 whose scripts register before they
\* sync, under the fairness of FairSpec
NextQuiesce ==
    \/ \E s \in {"s1", "s2"} : get_synced_state(s, "r1")
    \/ \E s \in {"s1", "s2"} : register_session(s, "r1")
    \/ \E s \in {"s1", "s2"} : s \in registered["r1"] /\ SyncRead(s, "r1")
    \/ \E s \in {"s1", "s2"} : SyncWrite(s, "r1")
    \/ \E s \in {"s1", "s2"}, i \in MainInputs : Input(s, i[1], i[2], i[3])
    \/ Tick

QuiesceSpec ==
    /\ Init /\ [][NextQuiesce]_vars
    /\ \A s \in {"s1", "s2"} :
          /\ SF_vars(s \in registered["r1"] /\ SyncRead(s, "r1"))
          /\ WF_vars(SyncWrite(s, "r1"))
    /\ WF_vars(Tick)

\* CollectSpec: one session in room r1 whose three sources receive values
\* under keys of every class
NextCollect ==
    \/ get_synced_state("s1", "r1")
    \/ SyncRead("s1", "r1")
    \/ SyncWrite("s1", "r1")
    \/ \E i \in CollectInputs : Input("s1", i[1], i[2], i[3])

CollectSpec == Init /\ [][NextCollect]_vars

(***************************************************************************)
(* Claims                                                                   *)
(***************************************************************************)
\* the values session s displays for the keys of room r are the room's, and
\* its timestamp is the room's
InSync(s, r) ==
    /\ last_synced[s] = <<last_updated[r]>>
    /\ \A k \in DOMAIN State(r) :
          /\ k \in DOMAIN local[s]["session_state"]
          /\ local[s]["session_state"][k] = State(r)[k]

\* C1: a session that was sent a rerun request by the broadcast of another
\* session's commit eventually has the room's timestamp and the room's
\* values (or has ended), when every pending run runs and the inputs stop
\* (requests made before the clock reaches the horizon of the model, so that no
\* commit is forced to read the clock value of the one before).
C1_EventualConsistency ==
    \A s \in {"s1", "s2"} :
        (notified[s] = "requested" /\ now < MaxClock)
            ~> (InSync(s, "r1") \/ s \notin alive)

NeverSynced ==
    {k \in RawKeys : is_form_submitter_value(k) \/ is_trigger_value(k) \/ ~is_synced(k)}

\* C3: no form-submit key, trigger key or key not eligible for sync is in the
\* update set of a sync, nor in the state of a room.
C3_FilteredNeverSynced ==
    /\ \A s \in Sessions : DOMAIN updated[s] \cap NeverSynced = {}
    /\ \A r \in RoomNames : DOMAIN State(r) \cap NeverSynced = {}

\* a sync commits while the session holds, beside the value it writes, a
\* value under a key that is not synced
C3_Witness ==
    /\ pc["s1"] = "commit"
    /\ \E src \in Sources : \E k \in NeverSynced :
          k \in DOMAIN local["s1"][src] /\ local["s1"][src][k] # "None"

\* the storage mode, backing path and state map of room r
Storage(r) == <<use_cache[r], room_cache_dir[r], cache[r], state_ref[r], nb_open[r]>>

\* C4 (calls one after the other): a call of attach_to_disk on a room backed
\* at a path fails with the conflict error when it names another path and
\* succeeds when it names the same, and leaves storage mode, backing path and
\* state map as they are; one container is opened; the backing path of a
\* disk-backed room never changes.
C4_AttachConflict ==
    [][\A r \in RoomNames :
          /\ \A s \in Sessions :
                (pc[s] = "line63" /\ pc'[s] = "idle" /\ room_of[s] = <<r>>)
                => /\ result'[s] = IF arg[s] = room_cache_dir[r]
                                   THEN "attached_already" ELSE "conflict"
                   /\ Storage(r)' = Storage(r)
          /\ (use_cache[r] /\ room_cache_dir[r] # <<>>)
                => (use_cache'[r] /\ room_cache_dir'[r] = room_cache_dir[r])
          /\ nb_open'[r] <= 1]_vars

\* a call naming another directory has failed and a call naming the same has
\* succeeded on a room attached to disk
C4_Witness ==
    /\ use_cache["r1"] /\ room_cache_dir["r1"] = <<RoomCacheDir("d1", "r1")>>
    /\ state_ref["r1"] = room_cache_dir["r1"] /\ nb_open["r1"] = 1
    /\ result["s1"] = "conflict" /\ arg["s1"] = <<RoomCacheDir("d2", "r1")>>
    /\ result["s2"] = "attached_already" /\ arg["s2"] = <<RoomCacheDir("d1", "r1")>>

\* C5: whatever the interleaving of concurrent attach_to_disk calls, one
\* container is opened, two calls naming different directories do not both
\* succeed, and no call finds the room marked disk-backed with no path set.
C5_ConcurrentAttachSafe ==
    \A r \in RoomNames :
        /\ nb_open[r] <= 1
        /\ \A s, t \in Sessions :
              ( /\ room_of[s] = <<r>> /\ room_of[t] = <<r>>
                /\ pc[s] = "idle" /\ pc[t] = "idle"
                /\ result[s] \in {"attached", "attached_already"}
                /\ result[t] \in {"attached", "attached_already"} )
              => arg[s] = arg[t]
        /\ \A s \in Sessions : result[s] # "attribute_error"

\* C6: the commit of session s in room r, which broadcasts, removes from the
\* registered sessions the other ids that have no live handle, keeps the
\* other ids that have one and requests a rerun of each, keeps the id of s,
\* and completes.
C6_Pruning ==
    [][\A s \in Sessions, r \in RoomNames :
          (pc[s] = "commit" /\ pc'[s] = "idle" /\ room_of[s] = <<r>>)
          => /\ \A t \in registered[r] \ {s} :
                   IF t \in alive
                   THEN t \in registered'[r] /\ runq'[t] /\ notified'[t] = "requested"
                   ELSE t \notin registered'[r]
             /\ s \in registered[r] => s \in registered'[r]
             /\ registered'[r] \subseteq registered[r]
             /\ result'[s] = "committed"]_vars

\* the commit of s1 has pruned the ended session s3 and requested a rerun of
\* the live session s2
C6_Witness ==
    /\ last_commit.by = "s1" /\ last_commit.pruned = {"s3"} /\ result["s1"] = "committed"
    /\ registered["r1"] = {"s1", "s2"} /\ "s3" \notin alive
    /\ notified["s2"] = "requested" /\ runq["s2"]

\* C7: the next interaction of a registered session that another session's
\* commit has sent a rerun request takes branch A (it pulls the room's values).
C7_RequestedSessionPulls ==
    [][\A b \in Sessions :
          (notified[b] = "requested" /\ notified'[b] # "requested")
          => notified'[b] = "pulled"]_vars

\* C8: register_session of a registered id and unregister_session of an id
\* that is not registered leave the registered sessions as they are, and
\* neither operation changes the room's state map or lastUpdated.
C8_RegistrationIdempotent ==
    [][\A s \in Sessions, r \in RoomNames :
          /\ (register_session(s, r) /\ s \in registered[r])
                => /\ registered'[r] = registered[r]
                   /\ Cardinality(registered'[r]) = Cardinality(registered[r])
          /\ (unregister_session(s, r) /\ s \notin registered[r])
                => registered'[r] = registered[r]
          /\ (register_session(s, r) \/ unregister_session(s, r))
                => /\ State(r)' = State(r) /\ state_ref'[r] = state_ref[r]
                   /\ last_updated'[r] = last_updated[r]
                   /\ pc'[s] = "idle"]_vars

\* both operations have been repeated in a room that holds a committed value
\* and two registered sessions
C8_Witness ==
    /\ repeated = {"register", "unregister"}
    /\ State("r1") = ("x" :> "a") /\ last_updated["r1"] > Epoch
    /\ Cardinality(registered["r1"]) = 2

\* C9: the set get_existing_room_names returns holds the name of every room
\* get_synced_state has created.
C9_ListingComplete == rooms \subseteq existing_room_names

\* C10: between a sync's read of lastUpdated and its final write (the thread
\* of s is at the commit), no step changes lastUpdated, the state map, the
\* registered sessions or the storage mode of the room.
C10_ReconciliationAtomic ==
    [][\A s \in Sessions, r \in RoomNames :
          (pc[s] = "commit" /\ pc'[s] = "commit" /\ room_of[s] = <<r>>)
          => /\ last_updated'[r] = last_updated[r]
             /\ registered'[r] = registered[r]
             /\ use_cache'[r] = use_cache[r]
             /\ state_ref'[r] = state_ref[r]
             /\ State(r)' = State(r)]_vars

\* C11: a sync of a session whose timestamp differs from the room's
\* lastUpdated gives the session the room's values and timestamp, leaves a run
\* of the session pending and ends: no update set is built, the room's state,
\* lastUpdated and registered sessions are unchanged, the lock is free and no
\* other session is sent a rerun request.
C11_BranchAPrecedence ==
    [][\A s \in Sessions, r \in RoomNames :
          (SyncRead(s, r) /\ last_synced[s] # <<last_updated[r]>>)
          => /\ \A k \in DOMAIN State(r) :
                   /\ k \in DOMAIN local'[s]["session_state"]
                   /\ local'[s]["session_state"][k] = State(r)[k]
             /\ last_synced'[s] = <<last_updated[r]>>
             /\ runq'[s] /\ pc'[s] = "idle" /\ result'[s] = "pulled"
             /\ updated' = updated /\ lock'[r] = <<>>
             /\ State(r)' = State(r) /\ last_updated' = last_updated
             /\ registered' = registered
             /\ \A t \in Sessions \ {s} :
                   runq'[t] = runq[t] /\ notified'[t] = notified[t]]_vars

\* s1 has pulled x from the room while it held a value of its own for y, and
\* y has not been written to the room
C11_Witness ==
    /\ result["s1"] = "pulled" /\ last_updated["r1"] > Epoch
    /\ last_synced["s1"] = <<last_updated["r1"]>>
    /\ State("r1") = ("x" :> "a")
    /\ local["s1"]["session_state"] = ("x" :> "a") @@ ("y" :> "a")

\* C12: in branch B the update set is the set of keys whose value in the
\* candidate map, where the latest source holding a key decides its value,
\* differs from the value the room stores, each with that value (sessions
\* whose sources hold values other than None).
C12_SourcePrecedence ==
    [][\A s \in Sessions, r \in RoomNames :
          ( /\ SyncRead(s, r) /\ last_synced[s] = <<last_updated[r]>>
            /\ \A src \in Sources : \A k \in DOMAIN local[s][src] :
                  local[s][src][k] # "None" )
          => LET kept(src) == {k \in DOMAIN local[s][src] : ~Skipped(k)}
                 cand(src) == [u \in {widget_id_to_user_key(k) : k \in kept(src)} |->
                                  local[s][src][CHOOSE k \in kept(src) :
                                                    widget_id_to_user_key(k) = u]]
                 merged == Update(Update(cand("new_session_state"),
                                         cand("new_widget_state")),
                                  cand("session_state"))
                 differing == {k \in DOMAIN merged : merged[k] # Get(State(r), k)}
                 expected == [k \in differing |-> merged[k]]
             IN  IF expected = EmptyMap
                 THEN pc'[s] = "idle" /\ result'[s] = "unchanged"
                 ELSE pc'[s] = "commit" /\ updated'[s] = expected]_vars

\* C13: in branch B every collected key that passes the filters and is absent
\* from the room's state map is in the update set, whatever its value, None
\* included; a key the room holds, collected from one source only, is in the
\* update set exactly when its collected value differs from the stored one.
C13_AbsentKeyChanged ==
    [][\A s \in Sessions, r \in RoomNames :
          (SyncRead(s, r) /\ last_synced[s] = <<last_updated[r]>>)
          => \A src \in Sources : \A k \in DOMAIN local[s][src] :
                LET u == widget_id_to_user_key(k)
                    alone == \A src2 \in Sources \ {src} : \A k2 \in DOMAIN local[s][src2] :
                                 widget_id_to_user_key(k2) # u
                    inUpdate == pc'[s] = "commit" /\ u \in DOMAIN updated'[s]
                IN  ~Skipped(k)
                    => /\ u \notin DOMAIN State(r) => inUpdate
                       /\ (u \in DOMAIN State(r) /\ alone)
                             => (inUpdate <=> local[s][src][k] # State(r)[u])]_vars

\* C14: the commit of session s in room r requests a rerun of every
\* registered session that has a live handle and is not s, and of no other
\* session, s included; a branch B that finds nothing to update requests no
\* rerun.
C14_BroadcastTargets ==
    [][\A s \in Sessions, r \in RoomNames :
          /\ (pc[s] = "commit" /\ pc'[s] = "idle" /\ room_of[s] = <<r>>)
             => /\ updated[s] # EmptyMap
                /\ \A t \in Sessions :
                      IF t # s /\ t \in registered[r] /\ t \in alive
                      THEN runq'[t] /\ notified'[t] = "requested"
                      ELSE /\ notified'[t] = notified[t]
                           /\ runq'[t] = (t # s /\ runq[t])
          /\ (SyncRead(s, r) /\ last_synced[s] = <<last_updated[r]>> /\ pc'[s] = "idle")
             => /\ result'[s] = "unchanged"
                /\ \A t \in Sessions \ {s} :
                      runq'[t] = runq[t] /\ notified'[t] = notified[t]
                /\ notified'[s] # "requested" /\ ~runq'[s]]_vars

\* s1 has committed in a room where s1, s2 and s3 are registered and live:
\* s2 and s3 have a rerun requested, s1 has none
C14_Witness ==
    /\ last_commit.by = "s1" /\ result["s1"] = "committed" /\ alive = Sessions
    /\ registered["r1"] = Sessions
    /\ notified["s2"] = "requested" /\ notified["s3"] = "requested"
    /\ runq["s2"] /\ runq["s3"] /\ ~runq["s1"] /\ notified["s1"] = "no"

\* C15: lastUpdated of a room never decreases, and a step that changes it
\* changes the contents of the room's state map.
C15_LastUpdatedDiscipline ==
    [][\A r \in RoomNames :
          /\ last_updated'[r] >= last_updated[r]
          /\ last_updated'[r] # last_updated[r] => State(r)' # State(r)]_vars

\* C16: when the commit of session s completes, the timestamp of s is the
\* room's new lastUpdated; and while no other session has committed since,
\* a sync of s finds the two equal and is not a pull.
C16_WriterStaysInSync ==
    [][\A s \in Sessions, r \in RoomNames :
          /\ (pc[s] = "commit" /\ pc'[s] = "idle" /\ room_of[s] = <<r>>)
             => last_synced'[s] = <<last_updated'[r]>>
          /\ (SyncRead(s, r) /\ last_commit.by = s /\ last_commit.room = r)
             => /\ last_synced[s] = <<last_updated[r]>>
                /\ local'[s] = local[s] /\ last_synced'[s] = last_synced[s]
                /\ notified'[s] # "pulled"]_vars

\* s1 has committed and then run a sync that found nothing to update, with no
\* commit of another session in between
C16_Witness ==
    /\ last_commit.by = "s1" /\ last_commit.room = "r1" /\ result["s1"] = "unchanged"
    /\ last_synced["s1"] = <<last_updated["r1"]>> /\ last_updated["r1"] > Epoch
    /\ pc["s1"] = "idle" /\ ~runq["s1"]

C18_NoUnawareWriter ==
    [][\A s \in Sessions :
          (pc[s] = "idle" /\ pc'[s] = "commit") => notified[s] # "requested"]_vars

C20_Quiescence ==
    <>[](\/ last_updated["r1"] = MaxClock
         \/ \A s \in registered["r1"] :
               InSync(s, "r1") /\ ~runq[s] /\ pc[s] = "idle" /\ lock["r1"] = <<>>)

====
